---- MODULE Spec2Model ----
(***************************************************************************)
(* Model of maths_worksheet.py: the interactive prompt sequence, the       *)
(* problem generator, the LaTeX grid renderer and the compile/summary      *)
(* tail of main().  Strings are sequences of tokens (single characters or  *)
(* LaTeX control words) so that formatting and parsing are real            *)
(* conversions.                                                            *)
(***************************************************************************)
EXTENDS Integers, Sequences, FiniteSets, TLC

VARIABLES pc, op_choice, operation, min_num, max_num, num_questions,
          student_name, problems, worksheet_latex, answers_latex,
          files, worksheet_success, answers_success, stdout

vars == <<pc, op_choice, operation, min_num, max_num, num_questions,
          student_name, problems, worksheet_latex, answers_latex,
          files, worksheet_success, answers_success, stdout>>

(* ------------------------------ bounds -------------------------------- *)
\* largest number a user types at the range prompts (smallest is -1)
MaxNum == 2
\* largest question count a user types
MaxCount == 2
\* largest operand bound of the stand-alone generator runs
GenMax == 3
\* largest problem-set length of the stand-alone renderer runs
MaxProblems == 26

(* --------------------------- text conversion -------------------------- *)
DigitChars == <<"0", "1", "2", "3", "4", "5", "6", "7", "8", "9">>

RECURSIVE NatToStr(_)
NatToStr(n) ==
    IF n < 10 THEN <<DigitChars[n + 1]>>
    ELSE Append(NatToStr(n \div 10), DigitChars[(n % 10) + 1])

\* str(n) / f"{n}" for an int
IntToStr(n) == IF n < 0 THEN <<"-">> \o NatToStr(0 - n) ELSE NatToStr(n)

IsDigit(c) == \E d \in 1..10 : DigitChars[d] = c

DigitVal(c) == (CHOOSE d \in 1..10 : DigitChars[d] = c) - 1

RECURSIVE DigitsVal(_)
DigitsVal(s) ==
    IF s = <<>> THEN 0
    ELSE 10 * DigitsVal(SubSeq(s, 1, Len(s) - 1)) + DigitVal(s[Len(s)])

AllDigits(s) == s # <<>> /\ \A k \in 1..Len(s) : IsDigit(s[k])

\* int(text): an optional sign followed by one or more digits, otherwise
\* ValueError (ok = FALSE)
ParseInt(s) ==
    IF s # <<>> /\ s[1] \in {"-", "+"}
    THEN LET t == Tail(s) IN
         IF AllDigits(t)
         THEN [ok |-> TRUE, val |-> IF s[1] = "-" THEN 0 - DigitsVal(t) ELSE DigitsVal(t)]
         ELSE [ok |-> FALSE, val |-> 0]
    ELSE IF AllDigits(s) THEN [ok |-> TRUE, val |-> DigitsVal(s)]
         ELSE [ok |-> FALSE, val |-> 0]

RECURSIVE LStrip(_)
LStrip(s) == IF s # <<>> /\ s[1] = " " THEN LStrip(Tail(s)) ELSE s

RECURSIVE RStrip(_)
RStrip(s) ==
    IF s # <<>> /\ s[Len(s)] = " " THEN RStrip(SubSeq(s, 1, Len(s) - 1)) ELSE s

\* str.strip()
Strip(s) == RStrip(LStrip(s))

(* ------------------------------ user input ---------------------------- *)
BadEntries == {<<>>, <<"x">>}

OpEntries == {IntToStr(n) : n \in 0..5} \cup BadEntries

NumEntries == {IntToStr(n) : n \in (0 - 1)..MaxNum} \cup BadEntries

CountEntries == {IntToStr(n) : n \in 0..MaxCount} \cup BadEntries

NameEntries == {<<>>, <<" ", "A", " ">>}

operations == [c \in 1..4 |->
    CASE c = 1 -> "addition" [] c = 2 -> "subtraction"
      [] c = 3 -> "multiplication" [] c = 4 -> "division"]

(* --------------------------- problem generator ------------------------ *)
Max(x, y) == IF x >= y THEN x ELSE y

\* random.randint(low, high): any member; empty range raises ValueError
randint(low, high) == low..high

\* range of the first draw of generate_problem
FirstDraw(op, lo, hi) ==
    IF op = "division" THEN randint(Max(1, lo), hi) ELSE randint(lo, hi)

\* slip: the subtrahend drawn from the whole range
SecondDraw_WholeRange(op, lo, hi, first) == randint(lo, hi)

\* range of the second draw, given the first
SecondDraw(op, lo, hi, first) ==
    IF op = "subtraction" THEN randint(lo, first) ELSE randint(lo, hi)

\* slip: the dividend drawn instead of derived, the answer a floor division
generate_problem_DrawnDividend(op, lo, hi, r1, r2) ==
    CASE op = "addition" ->
           <<IntToStr(r1) \o <<" ", "+", " ">> \o IntToStr(r2), r1 + r2>>
      [] op = "subtraction" ->
           <<IntToStr(r1) \o <<" ", "-", " ">> \o IntToStr(r2), r1 - r2>>
      [] op = "multiplication" ->
           <<IntToStr(r1) \o <<" ", "\\times", " ">> \o IntToStr(r2), r1 * r2>>
      [] op = "division" ->
           <<IntToStr(r2) \o <<" ", "\\div", " ">> \o IntToStr(r1), r2 \div r1>>

\* slip: the multiplication branch keeps the sum of the addition branch
generate_problem_SumForProduct(op, lo, hi, r1, r2) ==
    CASE op = "addition" ->
           <<IntToStr(r1) \o <<" ", "+", " ">> \o IntToStr(r2), r1 + r2>>
      [] op = "subtraction" ->
           <<IntToStr(r1) \o <<" ", "-", " ">> \o IntToStr(r2), r1 - r2>>
      [] op = "multiplication" ->
           <<IntToStr(r1) \o <<" ", "\\times", " ">> \o IntToStr(r2), r1 + r2>>
      [] op = "division" ->
           <<IntToStr(r1 * r2) \o <<" ", "\\div", " ">> \o IntToStr(r1), r2>>

\* generate_problem with the two randint results r1, r2 made explicit
generate_problem(op, lo, hi, r1, r2) ==
    CASE op = "addition" ->
           <<IntToStr(r1) \o <<" ", "+", " ">> \o IntToStr(r2), r1 + r2>>
      [] op = "subtraction" ->
           <<IntToStr(r1) \o <<" ", "-", " ">> \o IntToStr(r2), r1 - r2>>
      [] op = "multiplication" ->
           <<IntToStr(r1) \o <<" ", "\\times", " ">> \o IntToStr(r2), r1 * r2>>
      [] op = "division" ->
           <<IntToStr(r1 * r2) \o <<" ", "\\div", " ">> \o IntToStr(r1), r2>>

(* ------------------------------ renderer ------------------------------ *)
\* (the multiplication and division glyphs of the labels are written x and /)
get_operation_symbol(op) ==
    CASE op = "addition" -> "Addition (+)"
      [] op = "subtraction" -> "Subtraction (-)"
      [] op = "multiplication" -> "Multiplication (x)"
      [] op = "division" -> "Division (/)"
      [] OTHER -> op

\* slip: strict comparisons at the thresholds
Columns_Strict(num_problems) ==
    IF num_problems < 12 THEN 3
    ELSE IF num_problems < 24 THEN 4
    ELSE 5

\* column-count policy of generate_latex
Columns(num_problems) ==
    IF num_problems <= 12 THEN 3
    ELSE IF num_problems <= 24 THEN 4
    ELSE 5

\* slip: the answer key numbers its cells with the 0-based loop index
Cell_IndexNumber(q_num, problem, answer, show_answers) ==
    IF show_answers
    THEN <<"\\textbf{">> \o IntToStr(q_num - 1) \o <<".", "}", " ", "$">> \o problem
         \o <<"$", " ", "&", " ", "$", "=", " ">> \o IntToStr(answer) \o <<"$">>
    ELSE <<"\\textbf{">> \o IntToStr(q_num) \o <<".", "}", " ", "$">> \o problem
         \o <<"$", " ", "&", " ", "$", "=", "$", " ", "\\rule{1.5cm}{0.4pt}">>

\* the f-string of one grid cell: numbered problem, "&", answer part
Cell(q_num, problem, answer, show_answers) ==
    IF show_answers
    THEN <<"\\textbf{">> \o IntToStr(q_num) \o <<".", "}", " ", "$">> \o problem
         \o <<"$", " ", "&", " ", "$", "=", " ">> \o IntToStr(answer) \o <<"$">>
    ELSE <<"\\textbf{">> \o IntToStr(q_num) \o <<".", "}", " ", "$">> \o problem
         \o <<"$", " ", "&", " ", "$", "=", "$", " ", "\\rule{1.5cm}{0.4pt}">>

\* slip: the short last row is not padded
PadRow_None(row, columns) == row

\* while len(row) < columns: row.append(" & ")
RECURSIVE PadRow(_, _)
PadRow(row, columns) ==
    IF Len(row) < columns THEN PadRow(Append(row, <<" ", "&", " ">>), columns)
    ELSE row

\* " & ".join(row)
RECURSIVE JoinCells(_)
JoinCells(row) ==
    IF row = <<>> THEN <<>>
    ELSE IF Len(row) = 1 THEN row[1]
    ELSE row[1] \o <<" ", "&", " ">> \o JoinCells(Tail(row))

\* the text appended to the document when a row is closed
RowLine(row) == JoinCells(row) \o <<" ", "\\\\", "\n", "\\hline", "\n">>

\* the loop "for i, (problem, answer) in enumerate(problems)", from index i
\* with the open row `row` and the lines emitted so far
RECURSIVE FillRows(_, _, _, _, _, _)
FillRows(probs, columns, show_answers, i, row, lines) ==
    IF i >= Len(probs) THEN lines
    ELSE LET q_num == i + 1
             cell == Cell(q_num, probs[i + 1][1], probs[i + 1][2], show_answers)
             row1 == Append(row, cell)
         IN IF Len(row1) = columns \/ i = Len(probs) - 1
            THEN FillRows(probs, columns, show_answers, i + 1, <<>>,
                          Append(lines, RowLine(PadRow(row1, columns))))
            ELSE FillRows(probs, columns, show_answers, i + 1, row1, lines)

\* value of the two document variables before generate_latex has run
NoDocument ==
    [title |-> "", label |-> "", range |-> <<0, 0>>, name_field |-> <<>>,
     col_spec |-> <<>>, body |-> <<>>, footer |-> FALSE]

\* generate_latex: the parts of the document that depend on its arguments
generate_latex(probs, params, show_answers) ==
    LET columns == Columns(Len(probs)) IN
    [title |-> IF show_answers THEN "ANSWER KEY" ELSE "MATHS WORKSHEET",
     label |-> get_operation_symbol(params.operation),
     range |-> <<params.min_num, params.max_num>>,
     name_field |-> IF params.student_name # <<>> THEN params.student_name
                    ELSE <<"\\rule{6cm}{0.4pt}">>,
     col_spec |-> [k \in 1..columns |-> "r@{\\hspace{0.3cm}}l|"],
     body |-> FillRows(probs, columns, show_answers, 0, <<>>, <<>>),
     footer |-> ~show_answers]

(* ------------------------------ compiler ------------------------------ *)
worksheet_pdf == <<"worksheet", ".pdf">>

answers_pdf == <<"worksheet_answers", ".pdf">>

\* output_filename.replace('.pdf', ext)
WithExt(output_filename, ext) == <<output_filename[1], ext>>

\* what the external pdflatex invocation can do
CompileOutcomes == {"missing", "no_pdf", "pdf"}

\* compile_latex: files on disk afterwards
CompileFiles(fs, output_filename, outcome) ==
    LET written == fs \cup {WithExt(output_filename, ".tex")} IN
    CASE outcome = "missing" -> written
      [] outcome = "no_pdf" ->
           written \cup {WithExt(output_filename, ".aux"), WithExt(output_filename, ".log")}
      [] outcome = "pdf" ->
           (written \cup {output_filename})
             \ {WithExt(output_filename, ext) : ext \in {".aux", ".log", ".out"}}

\* compile_latex: return value
CompileResult(outcome) == outcome = "pdf"

\* compile_latex: messages printed
CompileMessages(output_filename, outcome) ==
    CASE outcome = "missing" ->
           <<<<"Error: pdflatex not found", WithExt(output_filename, ".tex")>>>>
      [] outcome = "no_pdf" ->
           <<<<"Error: PDF was not created", WithExt(output_filename, ".tex")>>>>
      [] outcome = "pdf" -> <<>>

(* ------------------------------- state -------------------------------- *)
Init ==
    /\ pc = "ask_op"
    /\ op_choice = 0
    /\ operation = ""
    /\ min_num = 0
    /\ max_num = 0
    /\ num_questions = 0
    /\ student_name = <<>>
    /\ problems = <<>>
    /\ worksheet_latex = NoDocument
    /\ answers_latex = NoDocument
    /\ files = {}
    /\ worksheet_success = FALSE
    /\ answers_success = FALSE
    /\ stdout = <<>>

\* one pass of the "Enter choice (1-4)" loop
PromptOperation ==
    /\ pc = "ask_op"
    /\ \E e \in OpEntries :
         LET p == ParseInt(e) IN
         IF ~p.ok
         THEN UNCHANGED <<pc, op_choice, operation>>
         ELSE /\ op_choice' = p.val
              /\ IF 1 <= p.val /\ p.val <= 4
                 THEN operation' = operations[p.val] /\ pc' = "ask_range"
                 ELSE UNCHANGED <<pc, operation>>
    /\ UNCHANGED <<min_num, max_num, num_questions, student_name, problems,
                   worksheet_latex, answers_latex, files, worksheet_success,
                   answers_success, stdout>>

\* one pass of the minimum/maximum loop
PromptRange ==
    /\ pc = "ask_range"
    /\ \E e1 \in NumEntries, e2 \in NumEntries :
         LET p1 == ParseInt(e1)
             p2 == ParseInt(e2)
         IN IF ~p1.ok
            THEN UNCHANGED <<pc, min_num, max_num>>
            ELSE IF ~p2.ok
            THEN min_num' = p1.val /\ UNCHANGED <<pc, max_num>>
            ELSE /\ max_num' = p2.val
                 /\ IF p1.val < p2.val
                    THEN /\ min_num' = IF operation = "division" /\ p1.val < 1
                                       THEN 1 ELSE p1.val
                         /\ pc' = "ask_count"
                    ELSE min_num' = p1.val /\ UNCHANGED pc
    /\ UNCHANGED <<op_choice, operation, num_questions, student_name, problems,
                   worksheet_latex, answers_latex, files, worksheet_success,
                   answers_success, stdout>>

\* one pass of the "Number of questions" loop
PromptCount ==
    /\ pc = "ask_count"
    /\ \E e \in CountEntries :
         LET p == ParseInt(e) IN
         IF ~p.ok
         THEN UNCHANGED <<pc, num_questions>>
         ELSE /\ num_questions' = p.val
              /\ pc' = IF p.val > 0 THEN "ask_name" ELSE pc
    /\ UNCHANGED <<op_choice, operation, min_num, max_num, student_name, problems,
                   worksheet_latex, answers_latex, files, worksheet_success,
                   answers_success, stdout>>

\* the student-name prompt and the return of get_user_input
PromptName ==
    /\ pc = "ask_name"
    /\ \E e \in NameEntries : student_name' = Strip(e)
    /\ pc' = "generate"
    /\ UNCHANGED <<op_choice, operation, min_num, max_num, num_questions, problems,
                   worksheet_latex, answers_latex, files, worksheet_success,
                   answers_success, stdout>>

\* slip: a problem already in the list is dropped and ends the loop
GenerateStep_DropRepeat ==
    /\ pc = "generate"
    /\ Len(problems) < num_questions
    /\ IF FirstDraw(operation, min_num, max_num) = {}
       THEN pc' = "crashed" /\ UNCHANGED problems
       ELSE \E r1 \in FirstDraw(operation, min_num, max_num) :
              IF SecondDraw(operation, min_num, max_num, r1) = {}
              THEN pc' = "crashed" /\ UNCHANGED problems
              ELSE \E r2 \in SecondDraw(operation, min_num, max_num, r1) :
                     LET p == generate_problem(operation, min_num, max_num, r1, r2) IN
                     IF \E k \in 1..Len(problems) : problems[k] = p
                     THEN pc' = "render" /\ UNCHANGED problems
                     ELSE /\ problems' = Append(problems, p)
                          /\ pc' = IF Len(problems') = num_questions
                                   THEN "render" ELSE "generate"
    /\ UNCHANGED <<op_choice, operation, min_num, max_num, num_questions,
                   student_name, worksheet_latex, answers_latex, files,
                   worksheet_success, answers_success, stdout>>

\* one iteration of the loop of generate_problems; an empty randint range
\* raises ValueError, which nothing catches
GenerateStep ==
    /\ pc = "generate"
    /\ Len(problems) < num_questions
    /\ IF FirstDraw(operation, min_num, max_num) = {}
       THEN pc' = "crashed" /\ UNCHANGED problems
       ELSE \E r1 \in FirstDraw(operation, min_num, max_num) :
              IF SecondDraw(operation, min_num, max_num, r1) = {}
              THEN pc' = "crashed" /\ UNCHANGED problems
              ELSE \E r2 \in SecondDraw(operation, min_num, max_num, r1) :
                     /\ problems' = Append(problems,
                            generate_problem(operation, min_num, max_num, r1, r2))
                     /\ pc' = IF Len(problems') = num_questions
                              THEN "render" ELSE "generate"
    /\ UNCHANGED <<op_choice, operation, min_num, max_num, num_questions,
                   student_name, worksheet_latex, answers_latex, files,
                   worksheet_success, answers_success, stdout>>

params == [operation |-> operation, min_num |-> min_num, max_num |-> max_num,
           num_questions |-> num_questions, student_name |-> student_name]

\* main: the two generate_latex calls
Render ==
    /\ pc = "render"
    /\ worksheet_latex' = generate_latex(problems, params, FALSE)
    /\ answers_latex' = generate_latex(problems, params, TRUE)
    /\ pc' = "compile_worksheet"
    /\ UNCHANGED <<op_choice, operation, min_num, max_num, num_questions,
                   student_name, problems, files, worksheet_success,
                   answers_success, stdout>>

\* slip: a missing compiler ends the run at the first document
CompileWorksheet_Abort ==
    /\ pc = "compile_worksheet"
    /\ \E outcome \in CompileOutcomes :
         /\ files' = CompileFiles(files, worksheet_pdf, outcome)
         /\ worksheet_success' = CompileResult(outcome)
         /\ stdout' = stdout \o CompileMessages(worksheet_pdf, outcome)
         /\ pc' = IF outcome = "missing" THEN "crashed" ELSE "compile_answers"
    /\ UNCHANGED <<op_choice, operation, min_num, max_num, num_questions,
                   student_name, problems, worksheet_latex, answers_latex,
                   answers_success>>

\* main: worksheet_success = compile_latex(worksheet_latex, worksheet_pdf)
CompileWorksheet ==
    /\ pc = "compile_worksheet"
    /\ \E outcome \in CompileOutcomes :
         /\ files' = CompileFiles(files, worksheet_pdf, outcome)
         /\ worksheet_success' = CompileResult(outcome)
         /\ stdout' = stdout \o CompileMessages(worksheet_pdf, outcome)
    /\ pc' = "compile_answers"
    /\ UNCHANGED <<op_choice, operation, min_num, max_num, num_questions,
                   student_name, problems, worksheet_latex, answers_latex,
                   answers_success>>

\* main: answers_success = compile_latex(answers_latex, answers_pdf)
CompileAnswers ==
    /\ pc = "compile_answers"
    /\ \E outcome \in CompileOutcomes :
         /\ files' = CompileFiles(files, answers_pdf, outcome)
         /\ answers_success' = CompileResult(outcome)
         /\ stdout' = stdout \o CompileMessages(answers_pdf, outcome)
    /\ pc' = "summary"
    /\ UNCHANGED <<op_choice, operation, min_num, max_num, num_questions,
                   student_name, problems, worksheet_latex, answers_latex,
                   worksheet_success>>

\* main: the closing summary
Summary ==
    /\ pc = "summary"
    /\ stdout' = stdout \o
         << <<"GENERATION COMPLETE", <<>> >>,
            IF worksheet_success THEN <<"Worksheet", worksheet_pdf>>
            ELSE <<"Worksheet LaTeX", WithExt(worksheet_pdf, ".tex")>>,
            IF answers_success THEN <<"Answer Key", answers_pdf>>
            ELSE <<"Answer Key LaTeX", WithExt(answers_pdf, ".tex")>> >>
    /\ pc' = "done"
    /\ UNCHANGED <<op_choice, operation, min_num, max_num, num_questions,
                   student_name, problems, worksheet_latex, answers_latex,
                   files, worksheet_success, answers_success>>

Next ==
    \/ PromptOperation
    \/ PromptRange
    \/ PromptCount
    \/ PromptName
    \/ GenerateStep
    \/ Render
    \/ CompileWorksheet
    \/ CompileAnswers
    \/ Summary

Spec == Init /\ [][Next]_vars

(* ---------------- stand-alone runs of the generator ------------------- *)
OperationNames == {"addition", "subtraction", "multiplication", "division"}

OpChoiceOf(op) == CHOOSE c \in 1..4 : operations[c] = op

\* generate_problems called for one problem with validated bounds
InitGen ==
    /\ pc = "generate"
    /\ operation \in OperationNames
    /\ op_choice = OpChoiceOf(operation)
    /\ min_num \in (0 - GenMax)..GenMax
    /\ max_num \in (0 - GenMax)..GenMax
    /\ min_num < max_num
    /\ operation = "division" => min_num >= 1
    /\ num_questions = 1
    /\ student_name = <<>>
    /\ problems = <<>>
    /\ worksheet_latex = NoDocument
    /\ answers_latex = NoDocument
    /\ files = {}
    /\ worksheet_success = FALSE
    /\ answers_success = FALSE
    /\ stdout = <<>>

SpecGen == InitGen /\ [][GenerateStep]_vars

(* ---------------- stand-alone runs of the renderer -------------------- *)
\* a problem set of length n as generate_problems returns it for bounds
\* 1..12: the i-th problem takes the draws picked by seed
LayoutProblems(op, n, seed) ==
    [i \in 1..n |->
        LET r1 == 1 + ((5 * i + seed) % 12)
            r2 == IF op = "subtraction" THEN 1 + ((7 * i + seed) % r1)
                  ELSE 1 + ((7 * i + seed) % 12)
        IN generate_problem(op, 1, 12, r1, r2)]

InitLayout ==
    /\ pc = "render"
    /\ operation \in OperationNames
    /\ op_choice = OpChoiceOf(operation)
    /\ min_num = 1
    /\ max_num = 12
    /\ num_questions \in 1..MaxProblems
    /\ student_name \in {<<>>, <<"A">>}
    /\ \E seed \in 0..1 : problems = LayoutProblems(operation, num_questions, seed)
    /\ worksheet_latex = NoDocument
    /\ answers_latex = NoDocument
    /\ files = {}
    /\ worksheet_success = FALSE
    /\ answers_success = FALSE
    /\ stdout = <<>>

SpecLayout == InitLayout /\ [][Render]_vars

(* ------------------- reading rendered text back ----------------------- *)
HasToken(s, tok) == \E k \in 1..Len(s) : s[k] = tok

FirstToken(s, tok) == CHOOSE k \in 1..Len(s) : s[k] = tok /\ \A j \in 1..(k - 1) : s[j] # tok

\* the fields of s between occurrences of the separator token
RECURSIVE SplitOn(_, _)
SplitOn(s, sep) ==
    IF ~HasToken(s, sep) THEN <<s>>
    ELSE LET k == FirstToken(s, sep) IN
         <<SubSeq(s, 1, k - 1)>> \o SplitOn(SubSeq(s, k + 1, Len(s)), sep)

\* the two operands an expression shows, read from its text
ExprOperands(expr) ==
    LET f == SplitOn(expr, " ") IN
    IF Len(f) = 3 /\ Len(f[2]) = 1 /\ ParseInt(f[1]).ok /\ ParseInt(f[3]).ok
    THEN [wellformed |-> TRUE, a |-> ParseInt(f[1]).val, sign |-> f[2][1],
          b |-> ParseInt(f[3]).val]
    ELSE [wellformed |-> FALSE, a |-> 0, sign |-> "", b |-> 0]

RowEnd == <<" ", "\\\\", "\n", "\\hline", "\n">>

EndsWithRowEnd(line) ==
    Len(line) >= 5 /\ SubSeq(line, Len(line) - 4, Len(line)) = RowEnd

\* the tabular columns of one emitted row: the text between the "&"
RowFields(line) == SplitOn(SubSeq(line, 1, Len(line) - 5), "&")

\* the cells of a row, each the pair (problem column, answer column)
RowCells(line) ==
    LET f == RowFields(line) IN
    [c \in 1..(Len(f) \div 2) |-> <<Strip(f[2 * c - 1]), Strip(f[2 * c])>>]

IsPadCell(cell) == cell = << <<>>, <<>> >>

IsProblemCell(cell) == cell[1] # <<>> /\ cell[1][1] = "\\textbf{"

\* question number and expression shown in a problem column
ShownNumber(field) ==
    IF HasToken(field, ".") THEN ParseInt(SubSeq(field, 2, FirstToken(field, ".") - 1))
    ELSE [ok |-> FALSE, val |-> 0]

ShownExpr(field) ==
    IF HasToken(field, "$") /\ field[Len(field)] = "$"
    THEN SubSeq(field, FirstToken(field, "$") + 1, Len(field) - 1)
    ELSE <<>>

BlankAnswer == <<"$", "=", "$", " ", "\\rule{1.5cm}{0.4pt}">>

\* the number an answer-key answer column shows after "$= "
ShownAnswer(field) ==
    IF Len(field) >= 5 /\ SubSeq(field, 1, 3) = <<"$", "=", " ">> /\ field[Len(field)] = "$"
    THEN ParseInt(SubSeq(field, 4, Len(field) - 1))
    ELSE [ok |-> FALSE, val |-> 0]

CeilDiv(n, d) == (n + d - 1) \div d

Rendered == pc = "compile_worksheet"

Documents == {worksheet_latex, answers_latex}

\* every emitted row of doc is a closed row with `columns` cells
RowsHaveCells(doc, columns) ==
    \A r \in 1..Len(doc.body) :
        /\ EndsWithRowEnd(doc.body[r])
        /\ Len(RowFields(doc.body[r])) = 2 * columns

worksheet_tex == WithExt(worksheet_pdf, ".tex")

answers_tex == WithExt(answers_pdf, ".tex")

\* get_user_input has returned its parameter set
Returned == pc \notin {"ask_op", "ask_range", "ask_count", "ask_name"}

(* ------------------------------- claims ------------------------------- *)

\* C1: every parameter set returned by get_user_input has min_num < max_num,
\* num_questions > 0 and, for division, min_num >= 1.
C1_ReturnedParamsValid ==
    Returned =>
        /\ min_num < max_num
        /\ num_questions > 0
        /\ (operation = "division" => min_num >= 1)

\* C2: for every parameter set the prompts accept, generation never raises:
\* every randint range is non-empty.
C2_NoGenerationError == pc # "crashed"

\* C3: subtraction with min_num < max_num: every generated "a - b" has
\* min_num <= b <= a <= max_num and answer = a - b >= 0.
C3_Subtraction ==
    (operation = "subtraction" /\ min_num < max_num) =>
        \A i \in 1..Len(problems) :
            LET e == ExprOperands(problems[i][1])
                answer == problems[i][2]
            IN /\ e.wellformed
               /\ e.sign = "-"
               /\ min_num <= e.b /\ e.b <= e.a /\ e.a <= max_num
               /\ answer = e.a - e.b
               /\ answer >= 0

C3_Witness ==
    /\ operation = "subtraction"
    /\ min_num < 0
    /\ Len(problems) = 1
    /\ ExprOperands(problems[1][1]).b < 0
    /\ ExprOperands(problems[1][1]).a > ExprOperands(problems[1][1]).b

\* C4: division with 1 <= min_num < max_num: every generated "a div b" has
\* b in [max(1, min_num), max_num], answer in [min_num, max_num] and
\* a = b * answer, so a / b is exact and equals answer.
C4_Division ==
    (operation = "division" /\ 1 <= min_num /\ min_num < max_num) =>
        \A i \in 1..Len(problems) :
            LET e == ExprOperands(problems[i][1])
                answer == problems[i][2]
            IN /\ e.wellformed
               /\ e.sign = "\\div"
               /\ Max(1, min_num) <= e.b /\ e.b <= max_num
               /\ e.b # 0
               /\ min_num <= answer /\ answer <= max_num
               /\ e.a = e.b * answer
               /\ e.a % e.b = 0
               /\ e.a \div e.b = answer

C4_Witness ==
    /\ operation = "division"
    /\ min_num >= 1
    /\ Len(problems) = 1
    /\ ExprOperands(problems[1][1]).b > 1
    /\ problems[1][2] > 1
    /\ ExprOperands(problems[1][1]).b # problems[1][2]

\* C8: addition and multiplication with min_num < max_num: both rendered
\* operands lie in [min_num, max_num] and the stored answer is their sum
\* (addition) or product (multiplication).
C8_AddMul ==
    (operation \in {"addition", "multiplication"} /\ min_num < max_num) =>
        \A i \in 1..Len(problems) :
            LET e == ExprOperands(problems[i][1])
                answer == problems[i][2]
            IN /\ e.wellformed
               /\ min_num <= e.a /\ e.a <= max_num
               /\ min_num <= e.b /\ e.b <= max_num
               /\ operation = "addition" => (e.sign = "+" /\ answer = e.a + e.b)
               /\ operation = "multiplication" =>
                      (e.sign = "\\times" /\ answer = e.a * e.b)

C8_Witness ==
    /\ operation = "multiplication"
    /\ Len(problems) = 1
    /\ ExprOperands(problems[1][1]).a < 0
    /\ ExprOperands(problems[1][1]).b > 1
    /\ problems[1][2] < 0

\* C9: with min_num < max_num and count > 0, each pass of generate_problems
\* appends exactly one result of generate_problem behind the earlier ones,
\* repeated or not, and the set handed on has exactly num_questions problems.
C9_ExactlyCount ==
    [][(pc = "generate" /\ min_num < max_num /\ num_questions > 0) =>
          /\ pc' \in {"generate", "render"}
          /\ \E r1 \in FirstDraw(operation, min_num, max_num) :
               \E r2 \in SecondDraw(operation, min_num, max_num, r1) :
                 problems' = Append(problems,
                     generate_problem(operation, min_num, max_num, r1, r2))
          /\ (pc' = "render") = (Len(problems') = num_questions)]_vars

C9_Witness ==
    /\ pc = "render"
    /\ min_num < max_num
    /\ Len(problems) = 2
    /\ num_questions = 2
    /\ problems[1] = problems[2]

\* C5: a problem set of length N >= 1 is laid out in ceil(N / columns) rows
\* of exactly `columns` cells each; only the last row holds padding cells,
\* (columns - N mod columns) mod columns of them, behind its problems; the
\* same in the worksheet and in the answer key.
C5_GridRectangular ==
    Rendered =>
        \A doc \in Documents :
            LET n == Len(problems)
                columns == Len(doc.col_spec)
                rows == doc.body
            IN /\ n >= 1
               /\ Len(rows) = CeilDiv(n, columns)
               /\ RowsHaveCells(doc, columns)
               /\ \A r \in 1..Len(rows) : \A c \in 1..columns :
                    LET cell == RowCells(rows[r])[c] IN
                    /\ IsPadCell(cell) \/ IsProblemCell(cell)
                    /\ IsPadCell(cell) =>
                         (r = Len(rows) /\ \A d \in c..columns : IsPadCell(RowCells(rows[r])[d]))
               /\ Cardinality({c \in 1..columns : IsPadCell(RowCells(rows[Len(rows)])[c])})
                    = (columns - (n % columns)) % columns

C5_Witness ==
    /\ Rendered
    /\ Len(problems) = 26
    /\ Len(answers_latex.body) = 6
    /\ IsPadCell(RowCells(answers_latex.body[6])[2])

\* the k-th grid position (row-major) of a document, as a cell
CellAt(doc, k) ==
    LET columns == Len(doc.col_spec) IN
    RowCells(doc.body[((k - 1) \div columns) + 1])[((k - 1) % columns) + 1]

\* worksheet and answer key show problem i, numbered i, at grid position i,
\* and differ there in the answer column only
GridsAgree ==
    LET n == Len(problems)
        columns == Len(worksheet_latex.col_spec)
    IN /\ Len(answers_latex.col_spec) = columns
       /\ Len(worksheet_latex.body) = Len(answers_latex.body)
       /\ Len(worksheet_latex.body) * columns >= n
       /\ RowsHaveCells(worksheet_latex, columns)
       /\ RowsHaveCells(answers_latex, columns)
       /\ \A k \in 1..(Len(worksheet_latex.body) * columns) :
            LET w == CellAt(worksheet_latex, k)
                a == CellAt(answers_latex, k)
            IN /\ w[1] = a[1]
               /\ k <= n =>
                    /\ ShownNumber(w[1]) = [ok |-> TRUE, val |-> k]
                    /\ ShownExpr(w[1]) = problems[k][1]
                    /\ w[2] = BlankAnswer
                    /\ ShownAnswer(a[2]) = [ok |-> TRUE, val |-> problems[k][2]]
               /\ k > n => (IsPadCell(w) /\ IsPadCell(a))

\* C6: rendering the same problem set without and with answers leaves the
\* problem set unchanged and puts the same expressions, numbered 1..N in
\* problem order, at the same grid positions; only the answer cell differs
\* (blank line in the worksheet, the computed answer in the answer key).
C6_WorksheetMatchesKey ==
    /\ [](Rendered => GridsAgree)
    /\ [][pc = "render" => problems' = problems]_vars

C6_Witness ==
    /\ Rendered
    /\ Len(problems) = 14
    /\ operation = "division"
    /\ CellAt(worksheet_latex, 14)[2] = BlankAnswer
    /\ ShownAnswer(CellAt(answers_latex, 14)[2]).ok

\* C7: the grid has 3 columns for N <= 12, 4 for 13 <= N <= 24 and 5 for
\* N > 24, for every operation and for both documents.
C7_ColumnPolicy ==
    Rendered =>
        \A doc \in Documents :
            LET n == Len(problems)
                columns == Len(doc.col_spec)
            IN /\ n >= 1
               /\ (n <= 12) => columns = 3
               /\ (13 <= n /\ n <= 24) => columns = 4
               /\ (n > 24) => columns = 5
               /\ RowsHaveCells(doc, columns)

C7_Witness ==
    /\ Rendered
    /\ Len(problems) = 25
    /\ Len(worksheet_latex.col_spec) = 5
    /\ Len(worksheet_latex.body) = 5

\* the last three lines printed are the summary, one line per document
SummaryReported ==
    /\ Len(stdout) >= 3
    /\ stdout[Len(stdout) - 2][1] = "GENERATION COMPLETE"
    /\ stdout[Len(stdout) - 1] =
         IF worksheet_success THEN <<"Worksheet", worksheet_pdf>>
         ELSE <<"Worksheet LaTeX", worksheet_tex>>
    /\ stdout[Len(stdout)] =
         IF answers_success THEN <<"Answer Key", answers_pdf>>
         ELSE <<"Answer Key LaTeX", answers_tex>>

\* C10: whatever the worksheet compile does (compiler missing, or no PDF),
\* main goes on to compile the answer key and then to the summary; each
\* compile returns its own result and reports its failure, the .tex of a
\* failed document stays on disk, and the summary has a line per document.
C10_CompileFailureTolerated ==
    /\ [](pc = "compile_worksheet" => ENABLED CompileWorksheet)
    /\ [](pc = "compile_answers" => ENABLED CompileAnswers)
    /\ [](pc = "summary" => ENABLED Summary)
    /\ [][/\ pc = "compile_worksheet" =>
               /\ pc' = "compile_answers"
               /\ worksheet_tex \in files'
               /\ worksheet_success' = (worksheet_pdf \in files')
               /\ ~worksheet_success' => Len(stdout') = Len(stdout) + 1
          /\ pc = "compile_answers" =>
               /\ pc' = "summary"
               /\ worksheet_tex \in files' /\ answers_tex \in files'
               /\ worksheet_success' = worksheet_success
               /\ answers_success' = (answers_pdf \in files')
               /\ ~answers_success' => Len(stdout') = Len(stdout) + 1
          /\ pc = "summary" =>
               /\ pc' = "done"
               /\ files' = files
               /\ SummaryReported']_vars

C10_Witness ==
    /\ pc = "done"
    /\ ~worksheet_success
    /\ answers_success
    /\ worksheet_tex \in files
    /\ answers_pdf \in files
    /\ worksheet_pdf \notin files

====
